---- MODULE Spec2Model ----
(***************************************************************************)
(* Model of shmdamage/hsmr.py: the objective evaluator fun() and the       *)
(* two-stage driver synthesis().                                           *)
(*                                                                         *)
(* Numbers.  numpy float64 values are modelled as extended rationals       *)
(* <<n, d>> with d >= 0 in lowest terms: d > 0 is the finite value n/d,    *)
(* <<1,0>> is +Infinity, <<-1,0>> is -Infinity and <<0,0>> is NaN.         *)
(* Division by zero follows IEEE-754 as numpy applies it (x/0 = +-Inf,     *)
(* 0/0 = NaN, NaN propagates); rounding and the sign of zero are not       *)
(* modelled.                                                               *)
(*                                                                         *)
(* scipy.optimize.minimize is a library outside the repository.  It is     *)
(* modelled by its contract over a finite lattice of parameter vectors     *)
(* (see minimize_raises and minimize below).                               *)
(***************************************************************************)
EXTENDS Integers, Sequences, FiniteSets, TLC

\* ------------------------------------------------------------ bounds
\* longest sample sequence c or q
MaxLen == 2
\* norm orders offered by the caller are 1 .. MaxNorm
MaxNorm == 2
\* lattice of the minimizer: dyn_stiff in 0 .. MaxStiff
MaxStiff == 1
\* the values of the samples of c and q
Levels == 0..1
\* lattice of the minimizer: s_0 and m_0
Shifts == 0..1

\* ------------------------------------------------------------ float64
NaN == <<0, 0>>
PosInf == <<1, 0>>
NegInf == <<-1, 0>>

R(v) == <<v, 1>>

IAbs(n) == IF n < 0 THEN -n ELSE n

Sign(n) == IF n > 0 THEN 1 ELSE IF n < 0 THEN -1 ELSE 0

RECURSIVE GCD(_, _)
GCD(a, b) == IF b = 0 THEN a ELSE GCD(b, a % b)

\* n/d in lowest terms with a non-negative denominator
Rat(n, d) ==
    IF d = 0 THEN <<Sign(n), 0>>
    ELSE LET g == GCD(IAbs(n), IAbs(d))
             s == Sign(d)
         IN  <<(s * n) \div g, (s * d) \div g>>

IsNaN(a) == a = NaN

IsInf(a) == a[2] = 0 /\ a[1] # 0

IsFinite(a) == a[2] > 0

RAdd(a, b) ==
    IF IsNaN(a) \/ IsNaN(b) THEN NaN
    ELSE IF IsInf(a) THEN (IF IsInf(b) /\ b # a THEN NaN ELSE a)
    ELSE IF IsInf(b) THEN b
    ELSE Rat(a[1] * b[2] + b[1] * a[2], a[2] * b[2])

RNeg(a) == <<-a[1], a[2]>>

RSub(a, b) == RAdd(a, RNeg(b))

RMul(a, b) == Rat(a[1] * b[1], a[2] * b[2])

\* 1/b: 1/0 = Inf, 1/Inf = 0, 1/NaN = NaN
RInv(b) == IF b[1] < 0 THEN <<-b[2], -b[1]>> ELSE <<b[2], b[1]>>

RDiv(a, b) == RMul(a, RInv(b))

RAbs(a) == <<IAbs(a[1]), a[2]>>

\* a <= b; false when either side is NaN
RLeq(a, b) ==
    /\ ~IsNaN(a)
    /\ ~IsNaN(b)
    /\ IF a[2] = 0 /\ b[2] = 0 THEN a[1] <= b[1]
       ELSE a[1] * b[2] <= b[1] * a[2]

RECURSIVE RPow(_, _)
RPow(a, k) == IF k = 0 THEN R(1) ELSE RMul(a, RPow(a, k - 1))

\* numpy's maximum: NaN if either side is NaN
RMax(a, b) ==
    IF IsNaN(a) \/ IsNaN(b) THEN NaN ELSE IF RLeq(a, b) THEN b ELSE a

\* ------------------------------------------------------------ numpy
\* np.cumsum
RECURSIVE cumsum(_)
cumsum(s) ==
    IF Len(s) = 0 THEN <<>>
    ELSE LET p == cumsum(SubSeq(s, 1, Len(s) - 1))
         IN  Append(p, IF Len(p) = 0 THEN s[1] ELSE RAdd(p[Len(p)], s[Len(s)]))

\* np.linalg.norm(s, ord=np.inf) of a non-empty vector: max(abs(s))
RECURSIVE norm_inf(_)
norm_inf(s) ==
    IF Len(s) = 1 THEN RAbs(s[1])
    ELSE RMax(norm_inf(SubSeq(s, 1, Len(s) - 1)), RAbs(s[Len(s)]))

\* np.linalg.norm(s, ord=np.inf) raises ValueError on an empty vector
norm_inf_raises(s) == Len(s) = 0

\* numpy broadcasting of two one-dimensional operands
Broadcastable(la, lb) == la = lb \/ la = 1 \/ lb = 1

BroadcastLen(la, lb) == IF la = 1 THEN lb ELSE la

At(s, i) == IF Len(s) = 1 THEN s[1] ELSE s[i]

\* array * scalar, array / scalar
Scale(s, k) == [i \in 1..Len(s) |-> RMul(s[i], k)]

Over(s, k) == [i \in 1..Len(s) |-> RDiv(s[i], k)]

RECURSIVE SumPow(_, _)
SumPow(e, p) ==
    IF Len(e) = 0 THEN R(0)
    ELSE RAdd(SumPow(SubSeq(e, 1, Len(e) - 1), p), RPow(RAbs(e[Len(e)]), p))

\* ------------------------------------------------------------ fun
\* fun raises ValueError when c and m_ cannot be broadcast together
fun_raises(c, m_) == ~Broadcastable(Len(c), Len(m_))

\* __M = m_ + m_0 + x_locs * s_0, with x_locs = 0 .. len(m_)-1
FittedMoment(x, m_) ==
    [i \in 1..Len(m_) |-> RAdd(RAdd(m_[i], x[3]), RMul(R(i - 1), x[2]))]

\* error = c - __M / dyn_stiff
Residual(x, c, m_) ==
    LET M == FittedMoment(x, m_)
    IN  [i \in 1..BroadcastLen(Len(c), Len(m_)) |->
            RSub(At(c, i), RDiv(At(M, i), x[1]))]

\* The loss np.linalg.norm(error, ord=norm), given as its norm-th power
\* sum(abs(error)**norm): the root is monotone, and the loss is only ever
\* compared with other losses of the same order.
fun(x, c, m_, norm) == SumPow(Residual(x, c, m_), norm)

\* ------------------------------------------------------------ minimize
\* The parameter vectors the minimizer can visit.
Lattice ==
    {<<R(k), R(s), R(m)>> : k \in 0..MaxStiff, s \in Shifts, m \in Shifts}

Unbounded == <<NegInf, PosInf>>

\* scipy's bounds=None
NoBounds == <<Unbounded, Unbounded, Unbounded>>

InBounds(x, bounds) ==
    \A k \in 1..3 : RLeq(bounds[k][1], x[k]) /\ RLeq(x[k], bounds[k][2])

Feasible(bounds) == {x \in Lattice : InBounds(x, bounds)}

\* minimize(fun, x0, method='SLSQP', args=(c, m_, p), bounds=bounds) raises
\* when a lower bound exceeds its upper bound, and lets an exception of the
\* objective through.
minimize_raises(x0, c, m_, bounds) ==
    \/ \E k \in 1..3 : ~RLeq(bounds[k][1], bounds[k][2])
    \/ fun_raises(c, m_)

\* The OptimizeResult values minimize can return.  Every iterate respects
\* the bounds, so a starting point outside them is not an error: the result
\* is feasible whatever x0 is.  With success the result minimizes the loss
\* over the feasible lattice (any feasible point when every loss is NaN);
\* without success it is whatever feasible iterate the solver stopped at.
minimize(p, x0, c, m_, bounds) ==
    LET L == {<<x, fun(x, c, m_, p)>> : x \in Feasible(bounds)}
        best == {a \in L : /\ ~IsNaN(a[2])
                           /\ \A b \in L : IsNaN(b[2]) \/ RLeq(a[2], b[2])}
    IN  {[x |-> a[1], success |-> TRUE] : a \in IF best = {} THEN L ELSE best}
        \cup {[x |-> a[1], success |-> FALSE] : a \in L}

\* ------------------------------------------------------------ synthesis
\* a moment that also carries the zero before the first sample
NullMoment_padded(q) == <<R(0)>> \o cumsum(cumsum(q))

\* a single integration of the load: the shear instead of the moment
NullMoment_single(q) == cumsum(q)

\* lines 73 and 85: m_ = np.cumsum(np.cumsum(q))
NullMoment(q) == cumsum(cumsum(q))

\* lines 75 and 87 raise when c or m_ is empty
normalization_raises(m_, c) == norm_inf_raises(c) \/ norm_inf_raises(m_)

\* lines 75 and 87: m_ * norm(c, inf) / norm(m_, inf)
normalization(m_, c) == Over(Scale(m_, norm_inf(c)), norm_inf(m_))

\* parameters that are discarded when the minimizer reports no success
unpack_guarded(res) ==
    IF res.success THEN <<res.x[1], res.x[2], res.x[3]>> ELSE <<NaN, NaN, NaN>>

\* lines 78-80 and 90-92: the parameters read off res.x
unpack(res) == <<res.x[1], res.x[2], res.x[3]>>

\* a restart point with shear and moment in the order of the docstring
restart_swapped(dyn_stiff, s_0, m_0) == <<dyn_stiff, m_0, s_0>>

\* line 83: x0 = np.array([dyn_stiff, s_0, m_0])
restart(dyn_stiff, s_0, m_0) == <<dyn_stiff, s_0, m_0>>

\* line 77: the order of the stabilizing stage
StageANorm == 2

\* a moment whose shear term does not grow with the position
moment_flat(m_, m_0, s_0) ==
    [i \in 1..Len(m_) |-> RAdd(RAdd(m_[i], m_0), s_0)]

\* line 95: m = m_ + m_0 + np.arange(len(m_)) * s_0
moment(m_, m_0, s_0) ==
    [i \in 1..Len(m_) |-> RAdd(RAdd(m_[i], m_0), RMul(R(i - 1), s_0))]

\* line 97: c_h = m / dyn_stiff
healthy(m, dyn_stiff) == Over(m, dyn_stiff)

VARIABLES arg, bounds, x0, m_, res, dyn_stiff, s_0, m_0, ret, raised, calls, pc

vars == <<arg, bounds, x0, m_, res, dyn_stiff, s_0, m_0, ret, raised, calls, pc>>

RECURSIVE SeqsOf(_, _)
SeqsOf(S, n) ==
    IF n = 0 THEN {<<>>}
    ELSE LET T == SeqsOf(S, n - 1)
         IN  T \cup {Append(t, v) : t \in {u \in T : Len(u) = n - 1}, v \in S}

\* the sample sequences a caller passes as c or q
Samples == SeqsOf({R(v) : v \in Levels}, MaxLen)

\* the documented default guesses (1, 0, 0), and another guess
DefaultGuess == <<R(1), R(0), R(0)>>

Guesses == {DefaultGuess, <<R(0), R(1), R(1)>>}

\* the (min, max) pairs a caller passes for one parameter: the default, a
\* lower bound, an upper bound, a single point and a pair with min > max
Intervals ==
    {Unbounded, <<R(1), PosInf>>, <<NegInf, R(0)>>, <<R(1), R(1)>>,
     <<R(1), R(0)>>}

\* the bound triples a caller passes: at most one parameter is restricted
Limits ==
    {b \in [1..3 -> Intervals] : Cardinality({k \in 1..3 : b[k] # Unbounded}) <= 1}

\* The calls of synthesis: every pair of sample sequences with the default
\* guesses and bounds, and every guess and bound triple with the longest
\* equal sequences that start with a load.
Calls ==
    {a \in [c : Samples, q : Samples, guess : Guesses,
            norm : 1..MaxNorm, limits : Limits] :
        \/ a.guess = DefaultGuess /\ a.limits = [k \in 1..3 |-> Unbounded]
        \/ a.c = a.q /\ Len(a.q) = MaxLen /\ a.q[1] = R(1)}

None == <<>>

Init ==
    /\ arg \in Calls
    /\ bounds = None
    /\ x0 = None
    /\ m_ = None
    /\ res = None
    /\ dyn_stiff = None
    /\ s_0 = None
    /\ m_0 = None
    /\ ret = None
    /\ raised = None
    /\ calls = <<>>
    /\ pc = "l69"

\* lines 69-71: bounds and the first starting point
Setup ==
    /\ pc = "l69"
    /\ bounds' = <<arg.limits[1], arg.limits[2], arg.limits[3]>>
    /\ x0' = arg.guess
    /\ pc' = "l73"
    /\ UNCHANGED <<arg, m_, res, dyn_stiff, s_0, m_0, ret, raised, calls>>

\* lines 73-75: baseline moment of stage A
ReconstructA ==
    /\ pc = "l73"
    /\ LET raw == NullMoment(arg.q)
       IN  IF normalization_raises(raw, arg.c)
           THEN /\ m_' = raw
                /\ raised' = [line |-> 75, stage |-> "normalization"]
                /\ pc' = "raised"
           ELSE /\ m_' = normalization(raw, arg.c)
                /\ raised' = raised
                /\ pc' = "l77"
    /\ UNCHANGED <<arg, bounds, x0, res, dyn_stiff, s_0, m_0, ret, calls>>

\* lines 77-80: stage A, order 2, bounded
StageA ==
    /\ pc = "l77"
    /\ IF minimize_raises(x0, arg.c, m_, bounds)
       THEN /\ raised' = [line |-> 77, stage |-> "minimize"]
            /\ pc' = "raised"
            /\ UNCHANGED <<res, dyn_stiff, s_0, m_0, calls>>
       ELSE \E r \in minimize(StageANorm, x0, arg.c, m_, bounds) :
            /\ res' = r
            /\ dyn_stiff' = unpack(r)[1]
            /\ s_0' = unpack(r)[2]
            /\ m_0' = unpack(r)[3]
            /\ calls' = Append(calls, [p |-> StageANorm, x0 |-> x0, m_ |-> m_,
                                       bounds |-> bounds, res |-> r])
            /\ raised' = raised
            /\ pc' = "l83"
    /\ UNCHANGED <<arg, bounds, x0, m_, ret>>

\* lines 83-87: restart point and baseline moment of stage B
ReconstructB ==
    /\ pc = "l83"
    /\ x0' = restart(dyn_stiff, s_0, m_0)
    /\ LET raw == NullMoment(arg.q)
       IN  IF normalization_raises(raw, arg.c)
           THEN /\ m_' = raw
                /\ raised' = [line |-> 87, stage |-> "normalization"]
                /\ pc' = "raised"
           ELSE /\ m_' = normalization(raw, arg.c)
                /\ raised' = raised
                /\ pc' = "l89"
    /\ UNCHANGED <<arg, bounds, res, dyn_stiff, s_0, m_0, ret, calls>>

\* lines 89-92: stage B, order norm, called without bounds
StageB ==
    /\ pc = "l89"
    /\ IF minimize_raises(x0, arg.c, m_, NoBounds)
       THEN /\ raised' = [line |-> 89, stage |-> "minimize"]
            /\ pc' = "raised"
            /\ UNCHANGED <<res, dyn_stiff, s_0, m_0, calls>>
       ELSE \E r \in minimize(arg.norm, x0, arg.c, m_, NoBounds) :
            /\ res' = r
            /\ dyn_stiff' = unpack(r)[1]
            /\ s_0' = unpack(r)[2]
            /\ m_0' = unpack(r)[3]
            /\ calls' = Append(calls, [p |-> arg.norm, x0 |-> x0, m_ |-> m_,
                                       bounds |-> NoBounds, res |-> r])
            /\ raised' = raised
            /\ pc' = "l94"
    /\ UNCHANGED <<arg, bounds, x0, m_, ret>>

\* lines 94-101: derived curves and the returned tuple
Return ==
    /\ pc = "l94"
    /\ LET res_x == <<dyn_stiff, s_0, m_0>>
           m == moment(m_, m_0, s_0)
           c_h == healthy(m, dyn_stiff)
       IN  ret' = [c_h |-> c_h, m_ |-> m_, m |-> m,
                   res_x_dict |-> [dyn_stiff |-> res_x[1], s_0 |-> res_x[2],
                                   m_0 |-> res_x[3]]]
    /\ pc' = "returned"
    /\ UNCHANGED <<arg, bounds, x0, m_, res, dyn_stiff, s_0, m_0, raised, calls>>

Next ==
    \/ Setup
    \/ ReconstructA
    \/ StageA
    \/ ReconstructB
    \/ StageB
    \/ Return

Spec == Init /\ [][Next]_vars

\* ------------------------------------------------------------ properties
Returned == pc = "returned"

\* c and q have the same length n >= 1
ValidShape == Len(arg.c) = Len(arg.q) /\ Len(arg.c) >= 1

\* the returned baseline moment is an ordinary one: finite and not all zero
OrdinaryBaseline ==
    /\ \A i \in 1..Len(ret.m_) : IsFinite(ret.m_[i])
    /\ \E i \in 1..Len(ret.m_) : ret.m_[i] # R(0)

\* the parameter vector of the returned dict
ReturnedX == <<ret.res_x_dict.dyn_stiff, ret.res_x_dict.s_0, ret.res_x_dict.m_0>>

\* C1: every returned parameter lies inside its caller-supplied closed
\* interval [min, max].
C1_BoundaryRespect ==
    Returned => \A k \in 1..3 : /\ RLeq(arg.limits[k][1], ReturnedX[k])
                                /\ RLeq(ReturnedX[k], arg.limits[k][2])

\* C2: when c and q differ in length or are empty, the call is rejected
\* before the baseline moment is reconstructed and before any minimizer
\* run: nothing has been computed.
C2_ShapeRejected ==
    ~ValidShape => /\ pc \in {"l69", "l73", "raised"}
                   /\ m_ = None
                   /\ calls = <<>>

\* a lower bound above its upper bound, or a guess outside its interval
InvalidBounds ==
    \E k \in 1..3 : \/ ~RLeq(arg.limits[k][1], arg.limits[k][2])
                    \/ ~RLeq(arg.limits[k][1], arg.guess[k])
                    \/ ~RLeq(arg.guess[k], arg.limits[k][2])

\* C3: with an inverted bound pair or a guess outside its interval the call
\* is rejected before any optimization: no stage runs, nothing is returned.
C3_BoundsRejected ==
    InvalidBounds => calls = <<>> /\ ~Returned

DegenerateLoad ==
    /\ Len(arg.q) >= 1
    /\ Len(arg.c) >= 1
    /\ norm_inf(NullMoment(arg.q)) = R(0)

\* C5: with a baseline moment of infinity-norm zero the division by zero is
\* handled: no NaN or Infinity reaches the returned m_baseline (the
\* signature has no way for the caller to tolerate it).
C5_DegenerateHandled ==
    (Returned /\ DegenerateLoad) => \A i \in 1..Len(ret.m_) : IsFinite(ret.m_[i])

\* C6: the returned values all derive from the stage-B parameters: the dict
\* holds them, m is the FittedMoment of fun at them, and c_h is m divided
\* by dyn_stiff.
C6_OutputsConsistent ==
    Returned =>
        LET x == calls[2].res.x
        IN  /\ ret.res_x_dict = [dyn_stiff |-> x[1], s_0 |-> x[2], m_0 |-> x[3]]
            /\ ret.m = FittedMoment(x, ret.m_)
            /\ Len(ret.c_h) = Len(ret.m)
            /\ \A i \in 1..Len(ret.m) : ret.c_h[i] = RDiv(ret.m[i], x[1])

C6_Witness ==
    /\ Returned
    /\ Len(ret.m) >= 2
    /\ ret.res_x_dict.s_0 = R(1)
    /\ ret.res_x_dict.m_0 = R(1)
    /\ ret.res_x_dict.dyn_stiff = R(1)
    /\ ret.m # ret.m_
    /\ OrdinaryBaseline
    /\ \A i \in 1..Len(ret.m) : IsFinite(ret.c_h[i])

C8_LengthPreserved ==
    (Returned /\ ValidShape) => /\ Len(ret.c_h) = Len(arg.c)
                               /\ Len(ret.m_) = Len(arg.c)
                               /\ Len(ret.m) = Len(arg.c)

C8_Witness == Returned /\ ValidShape /\ Len(ret.c_h) = MaxLen /\ OrdinaryBaseline

\* C9: the minimizer is run at most twice and in order: stage A with p = 2
\* from the caller's guess, then stage B with p = norm from exactly the
\* vector stage A returned, converged or not; a call that returns has run
\* both, and stage B has not started before stage A has completed.
C9_TwoStagesInOrder ==
    /\ Len(calls) <= 2
    /\ Len(calls) >= 1 => calls[1].p = 2 /\ calls[1].x0 = arg.guess
    /\ Len(calls) = 2 => calls[2].p = arg.norm /\ calls[2].x0 = calls[1].res.x
    /\ Len(calls) = 0 <=> pc \in {"l69", "l73", "l77", "raised"}
    /\ Len(calls) = 1 <=> pc \in {"l83", "l89"}
    /\ Returned => Len(calls) = 2

C9_Witness ==
    /\ Returned
    /\ ~calls[1].res.success
    /\ calls[1].res.x # arg.guess
    /\ calls[1].res.x[2] # calls[1].res.x[3]
    /\ calls[2].p = 1
    /\ OrdinaryBaseline

\* the sum of s[1..j]
RECURSIVE PrefixSum(_, _)
PrefixSum(s, j) == IF j = 0 THEN R(0) ELSE RAdd(PrefixSum(s, j - 1), s[j])

\* the sum over j <= i of the sum over k <= j of s[k]
RECURSIVE DoublePrefixSum(_, _)
DoublePrefixSum(s, i) ==
    IF i = 0 THEN R(0) ELSE RAdd(DoublePrefixSum(s, i - 1), PrefixSum(s, i))

\* the largest absolute value of a non-empty sequence of finite numbers
MaxAbs(s) ==
    CHOOSE v \in {RAbs(s[i]) : i \in 1..Len(s)} :
        \A i \in 1..Len(s) : RLeq(RAbs(s[i]), v)

\* the double prefix sums of s at the positions 1 .. n
RECURSIVE DoublePrefixSums(_, _)
DoublePrefixSums(s, n) ==
    IF n = 0 THEN <<>>
    ELSE Append(DoublePrefixSums(s, n - 1), DoublePrefixSum(s, n))

\* the sequence raw with every element multiplied by num and divided by den
RECURSIVE Rescaled(_, _, _, _)
Rescaled(raw, num, den, n) ==
    IF n = 0 THEN <<>>
    ELSE Append(Rescaled(raw, num, den, n - 1), RDiv(RMul(raw[n], num), den))

\* the baseline moment as a function of the inputs alone
BaselineOf(c, q) ==
    LET raw == DoublePrefixSums(q, Len(q))
    IN  Rescaled(raw, MaxAbs(c), MaxAbs(raw), Len(q))

\* C10: the baseline moment handed to stage A, the one handed to stage B
\* and the returned m_baseline are the same sequence: the double prefix sum
\* of q scaled by ||c||_inf / ||raw||_inf.
C10_BaselineIdentical ==
    (Len(calls) >= 1) =>
        LET expected == BaselineOf(arg.c, arg.q)
        IN  /\ \A i \in 1..Len(calls) : calls[i].m_ = expected
            /\ Returned => ret.m_ = expected

C10_Witness ==
    /\ Returned
    /\ Len(arg.q) >= 2
    /\ ret.m_ # NullMoment(arg.q)
    /\ ret.m_ # arg.q
    /\ \A i \in 1..Len(ret.m_) : IsFinite(ret.m_[i]) /\ ret.m_[i] # R(0)

====
